---- MODULE Spec2Model ----
(***************************************************************************)
(* errbin: declarative error handling for Gin.                             *)
(*                                                                         *)
(* The model covers the error tree (Use, findPosition, findChildren,       *)
(* removeRoots, findHandler), the handler/middleware combinators           *)
(* (MiddlewareChain, UseGlobal, Fallback) and the dispatch closure         *)
(* returned by ErrbinMiddleware.                                           *)
(*                                                                         *)
(* Go pointers to nodes are indices into the arena `nodes` (0 is nil).     *)
(* Handlers and middlewares are func values; they are modelled as terms    *)
(* that record how the value was built, and Run evaluates a call of one.   *)
(***************************************************************************)
EXTENDS Integers, Sequences, FiniteSets, TLC

\* ---------------------------------------------------------------- bounds

\* Length of the linear wrap chain 1 <- 2 <- ... <- ChainLen.
ChainLen == 4
\* Number of distinct user handlers that may be passed to Use / Fallback.
NumHandlers == 3
\* Cap on the number of nodes ever allocated in the error tree.
MaxNodes == 3
\* Number of distinct middlewares.
NumMws == 3
\* Longest middleware list passed to MiddlewareChain / UseGlobal.
MaxMws == 3
\* Longest middleware list passed to UseGlobal.
MaxGlobal == 2
\* Most identities passed to one Use call.
MaxErrs == 2
\* Most nodes allocated while Use is called with several identities.
MaxMultiNodes == 2
\* Longest handler list passed to Chain.
MaxChain == 3
\* Most errors one request records in c.Errors.
MaxRecorded == 1
\* Cap on allocated nodes in the specification that dispatches requests.
MaxDispatchNodes == 1

\* ------------------------------------------------------- error identities

\* The error values of the embedding application.  1..ChainLen is a linear
\* chain built with fmt.Errorf("...: %w", previous); Branch wraps 2 without
\* being on the chain, so 3 and Branch are unrelated.
Branch == ChainLen + 1
Ids == 1..(ChainLen + 1)

\* nil of the respective Go types.
Nil == 0
NilErr == 0

\* One step of errors.Unwrap; NilErr when the error wraps nothing.
Unwrap(e) ==
    IF e = Branch THEN 2 ELSE e - 1

\* errors.Is(err, target) for comparable error values with single Unwrap.
RECURSIVE Is(_, _)
Is(err, target) ==
    IF err = NilErr THEN FALSE
    ELSE IF err = target THEN TRUE
    ELSE Is(Unwrap(err), target)

\* ------------------------------------------------- handlers, middlewares

\* An ErrorHandler value: a user handler, or nil.
H(h) == [kind |-> "base", id |-> h]
NilHandler == [kind |-> "nil"]
\* The closure a middleware returns: runs pre-logic, calls next, runs post-logic.
Wrapped(m, next) == [kind |-> "wrap", mw |-> m, next |-> next]

Handlers == {H(h) : h \in 1..NumHandlers}
\* The package's initial fallbackHandler (writes a 500 with err.Error()).
DefaultFallback == H(0)
Mws == 1..NumMws

\* An ErrorMiddleware value: nil, or the closure MiddlewareChain returns
\* (which captures the middlewares it was given).
NilMw == [kind |-> "nil"]
MiddlewareChain(middlewares) == [kind |-> "chain", mws |-> middlewares]

\* What a call of a handler or middleware does: the calls it makes, in order.
Event(ev, id, err) == [ev |-> ev, id |-> id, err |-> err]

\* middlewares[i](eh) for a middleware of the shape used throughout the
\* package's tests: pre-logic, next(err, c) once, post-logic.
ApplyMw(m, eh) == Wrapped(m, eh)

\* The body of the closure MiddlewareChain returns, from index i (0-based)
\* down to 0:  for i := len(middlewares) - 1; i >= 0; i-- { eh = middlewares[i](eh) }
RECURSIVE MiddlewareChainLoop(_, _, _)
\* The loop as it would be if it walked the middlewares first to last.
MiddlewareChainLoopForward(middlewares, eh, i) ==
    IF i < 0 THEN eh
    ELSE MiddlewareChainLoop(middlewares,
                             ApplyMw(middlewares[Len(middlewares) - i], eh), i - 1)

MiddlewareChainLoop(middlewares, eh, i) ==
    IF i < 0 THEN eh
    ELSE MiddlewareChainLoop(middlewares, ApplyMw(middlewares[i + 1], eh), i - 1)

\* mw(eh) for an ErrorMiddleware value mw that is not nil.
CallMw(mw, eh) == MiddlewareChainLoop(mw.mws, eh, Len(mw.mws) - 1)

\* h(err, c): the events of the call and whether it panicked (a call of a
\* nil func value panics; the statements after the panicking call do not run).
RECURSIVE Run(_, _)

\* The closure UseWithMiddleware passes to Use:
\*   func(err, ctx) { middleware(handler)(err, ctx) }
LocalHandler(middleware, handler) ==
    [kind |-> "local", mw |-> middleware, handler |-> handler]

\* Chain(handlers...): the closure captures the handlers it was given.
Chain(handlers) == [kind |-> "chained", hs |-> handlers]

\* The body of the closure Chain returns, from position i on:
\*   for _, handler := range handlers { handler(err, ctx) }
RECURSIVE ChainLoop(_, _, _)
\* The loop as it would be if it returned after the first handler.
ChainLoopFirstOnly(handlers, err, i) ==
    IF i > Len(handlers) THEN [events |-> <<>>, panicked |-> FALSE]
    ELSE Run(handlers[i], err)

ChainLoop(handlers, err, i) ==
    IF i > Len(handlers) THEN [events |-> <<>>, panicked |-> FALSE]
    ELSE LET r == Run(handlers[i], err) IN
         IF r.panicked THEN r
         ELSE LET rest == ChainLoop(handlers, err, i + 1) IN
              [events |-> r.events \o rest.events, panicked |-> rest.panicked]

Run(h, err) ==
    IF h.kind = "nil" THEN [events |-> <<>>, panicked |-> TRUE]
    ELSE IF h.kind = "base"
    THEN [events |-> <<Event("call", h.id, err)>>, panicked |-> FALSE]
    ELSE IF h.kind = "chained" THEN ChainLoop(h.hs, err, 1)
    ELSE IF h.kind = "local" THEN Run(ApplyMw(h.mw, h.handler), err)
    ELSE LET r == Run(h.next, err) IN
         IF r.panicked
         THEN [events |-> <<Event("pre", h.mw, err)>> \o r.events, panicked |-> TRUE]
         ELSE [events |-> <<Event("pre", h.mw, err)>> \o r.events
                           \o <<Event("post", h.mw, err)>>,
               panicked |-> FALSE]

\* ------------------------------------------------------------------ state

VARIABLES
    nodes,              \* arena of errorNode values; a *errorNode is an index
    errorTree,          \* the package variable errorTree: sequence of roots
    ret,                \* what Use returned, when the last call was a Use
    fallbackHandler,    \* the package variable fallbackHandler
    globalMiddlewares,  \* the package variable globalMiddlewares
    events,             \* calls made by the last request or chain call, if
                        \* that was the last operation
    panicked,           \* whether that request or chain call panicked
    chainArgs           \* arguments of the MiddlewareChain or Chain call under
                        \* test, or of the last Use call with several identities

vars == <<nodes, errorTree, ret, fallbackHandler, globalMiddlewares,
          events, panicked, chainArgs>>

\* &errorNode{Error: e, Handler: h, Parent: p, Children: ch}
errorNode(e, h, p, ch) == [Error |-> e, Handler |-> h, Parent |-> p, Children |-> ch]

Range(s) == {s[i] : i \in 1..Len(s)}

\* ---------------------------------------------------------------- finder

\* The closure trave of findPosition, scanning list from position i on.
\* Returns <<parent, itself>>.
RECURSIVE trave(_, _, _, _)
\* trave as it would be if it gave up after the first node that does not match.
traveFirstOnly(ns, target, list, i) ==
    IF i > Len(list) THEN <<Nil, Nil>>
    ELSE LET node == list[i] IN
         IF Is(target, ns[node].Error)
         THEN IF Is(ns[node].Error, target)
              THEN <<ns[node].Parent, node>>
              ELSE LET r == trave(ns, target, ns[node].Children, 1) IN
                   IF r[2] # Nil THEN r
                   ELSE IF r[1] = Nil THEN <<node, Nil>>
                   ELSE <<r[1], Nil>>
         ELSE <<Nil, Nil>>

\* trave as it would be if it did not descend into the children of a match.
traveShallow(ns, target, list, i) ==
    IF i > Len(list) THEN <<Nil, Nil>>
    ELSE LET node == list[i] IN
         IF Is(target, ns[node].Error)
         THEN IF Is(ns[node].Error, target)
              THEN <<ns[node].Parent, node>>
              ELSE <<node, Nil>>
         ELSE trave(ns, target, list, i + 1)

trave(ns, target, list, i) ==
    IF i > Len(list) THEN <<Nil, Nil>>
    ELSE LET node == list[i] IN
         IF Is(target, ns[node].Error)
         THEN IF Is(ns[node].Error, target)
              THEN <<ns[node].Parent, node>>
              ELSE LET r == trave(ns, target, ns[node].Children, 1) IN
                   IF r[2] # Nil THEN r
                   ELSE IF r[1] = Nil THEN <<node, Nil>>
                   ELSE <<r[1], Nil>>
         ELSE trave(ns, target, list, i + 1)

findPosition(ns, tree, target) == trave(ns, target, tree, 1)

\* The loop of findChildren from 0-based index i down to 0.
\* chidx holds 0-based indices into errorTree, children the roots there.
RECURSIVE findChildrenFrom(_, _, _, _)
\* findChildren as it would be with the loop condition i > 0.
findChildrenSkipFirst(ns, tree, newErr, i) ==
    IF i < 1 THEN [chidx |-> <<>>, children |-> <<>>]
    ELSE LET root == tree[i + 1]
             rest == findChildrenFrom(ns, tree, newErr, i - 1)
         IN  IF Is(ns[root].Error, newErr)
             THEN [chidx |-> <<i>> \o rest.chidx,
                   children |-> <<root>> \o rest.children]
             ELSE rest

findChildrenFrom(ns, tree, newErr, i) ==
    IF i < 0 THEN [chidx |-> <<>>, children |-> <<>>]
    ELSE LET root == tree[i + 1]
             rest == findChildrenFrom(ns, tree, newErr, i - 1)
         IN  IF Is(ns[root].Error, newErr)
             THEN [chidx |-> <<i>> \o rest.chidx,
                   children |-> <<root>> \o rest.children]
             ELSE rest

findChildren(ns, tree, newErr) == findChildrenFrom(ns, tree, newErr, Len(tree) - 1)

\* append(errorTree[:idx], errorTree[idx+1:]...) for a 0-based idx.
\* An idx past the end makes the slice expression panic in Go; findChildren
\* yields indices in descending order, so that never happens.
RemoveAt(tree, idx) ==
    IF idx < Len(tree)
    THEN [j \in 1..(Len(tree) - 1) |-> IF j <= idx THEN tree[j] ELSE tree[j + 1]]
    ELSE tree

\* removeRoots as it would be if it deleted the lowest index first.
RECURSIVE removeRootsAscending(_, _)
removeRootsAscending(tree, idxs) ==
    IF idxs = <<>> THEN tree
    ELSE removeRootsAscending(RemoveAt(tree, idxs[Len(idxs)]),
                              SubSeq(idxs, 1, Len(idxs) - 1))

RECURSIVE removeRoots(_, _)
removeRoots(tree, idxs) ==
    IF idxs = <<>> THEN tree
    ELSE removeRoots(RemoveAt(tree, Head(idxs)), Tail(idxs))

\* findHandler as it would be with the two branches tested in the other order.
findHandlerParentFirst(ns, tree, err) ==
    LET pos == findPosition(ns, tree, err) IN
    IF pos[1] # Nil THEN <<ns[pos[1]].Handler, TRUE>>
    ELSE IF pos[2] # Nil THEN <<ns[pos[2]].Handler, TRUE>>
    ELSE <<NilHandler, FALSE>>

\* findHandler: <<handler, found>>.
findHandler(ns, tree, err) ==
    LET pos == findPosition(ns, tree, err) IN
    IF pos[2] # Nil THEN <<ns[pos[2]].Handler, TRUE>>
    ELSE IF pos[1] # Nil THEN <<ns[pos[1]].Handler, TRUE>>
    ELSE <<NilHandler, FALSE>>

\* The loop of the breadth-first findHandler of the earlier version:
\*   for len(queue) > 0 { node := queue[0]; queue = queue[1:]
\*       if errors.Is(err, node.error) { bestMatch = node
\*                                       queue = append(queue, node.children...) } }
RECURSIVE bestMatchLoop(_, _, _, _)
bestMatchLoop(ns, queue, err, bestMatch) ==
    IF queue = <<>> THEN bestMatch
    ELSE LET node == Head(queue) IN
         IF Is(err, ns[node].Error)
         THEN bestMatchLoop(ns, Tail(queue) \o ns[node].Children, err, node)
         ELSE bestMatchLoop(ns, Tail(queue), err, bestMatch)

\* The breadth-first findHandler: <<handler, found>>.
findHandlerBreadthFirst(ns, tree, err) ==
    LET bestMatch == bestMatchLoop(ns, tree, err, Nil) IN
    IF bestMatch # Nil THEN <<ns[bestMatch].Handler, TRUE>>
    ELSE <<NilHandler, FALSE>>

\* ------------------------------------------------------------------- Use

RetOk == "nil"
RetNilHandler == "handler cannot be nil"
RetNilErr == "cannot register nil error"
RetDuplicate == "duplicate registration"

\* One iteration of the loop of Use for newErr # nil, on the forest f.
\* Yields the forest after the iteration and ret: RetOk for `continue` or
\* falling out of the body, otherwise the error returned.
UseOne(f, handler, newErr) ==
    LET pos == findPosition(f.nodes, f.tree, newErr)
        parent == pos[1]
        itself == pos[2]
        new == Len(f.nodes) + 1
        fc == findChildren(f.nodes, f.tree, newErr)
    IN  IF itself # Nil
        THEN [nodes |-> f.nodes, tree |-> f.tree, ret |-> RetDuplicate]
        ELSE IF parent # Nil
        THEN [nodes |-> Append([f.nodes EXCEPT ![parent].Children = Append(@, new)],
                               errorNode(newErr, handler, parent, <<>>)),
              tree |-> f.tree, ret |-> RetOk]
        ELSE IF Len(fc.children) > 0
        THEN [nodes |-> Append(f.nodes, errorNode(newErr, handler, Nil, fc.children)),
              tree |-> Append(removeRoots(f.tree, fc.chidx), new),
              ret |-> RetOk]
        ELSE [nodes |-> Append(f.nodes, errorNode(newErr, handler, Nil, <<>>)),
              tree |-> Append(f.tree, new),
              ret |-> RetOk]

\* The loop as it would be if a failing identity were skipped and the error
\* reported after the remaining identities had been registered.
RECURSIVE UseLoopKeepGoing(_, _, _, _)
UseLoopKeepGoing(f, handler, errs, i) ==
    IF i > Len(errs) THEN [nodes |-> f.nodes, tree |-> f.tree, ret |-> RetOk]
    ELSE IF errs[i] = NilErr
    THEN [UseLoopKeepGoing(f, handler, errs, i + 1) EXCEPT !.ret = RetNilErr]
    ELSE LET r == UseOne(f, handler, errs[i]) IN
         IF r.ret # RetOk
         THEN [UseLoopKeepGoing(f, handler, errs, i + 1) EXCEPT !.ret = r.ret]
         ELSE UseLoopKeepGoing(r, handler, errs, i + 1)

\* for _, newErr := range errs { ... } from position i on.
RECURSIVE UseLoop(_, _, _, _)
UseLoop(f, handler, errs, i) ==
    IF i > Len(errs) THEN [nodes |-> f.nodes, tree |-> f.tree, ret |-> RetOk]
    ELSE IF errs[i] = NilErr
    THEN [nodes |-> f.nodes, tree |-> f.tree, ret |-> RetNilErr]
    ELSE LET r == UseOne(f, handler, errs[i]) IN
         IF r.ret # RetOk THEN r
         ELSE UseLoop(r, handler, errs, i + 1)

\* The call as it would be without the check of the handler.
UseCallUnchecked(f, handler, errs) == UseLoop(f, handler, errs, 1)

\* The whole call Use(handler, errs...).
UseCall(f, handler, errs) ==
    IF handler = NilHandler
    THEN [nodes |-> f.nodes, tree |-> f.tree, ret |-> RetNilHandler]
    ELSE UseLoop(f, handler, errs, 1)

Forest == [nodes |-> nodes, tree |-> errorTree]

\* Sequences over S of length at most n.
SeqUpTo(S, n) == UNION {[1..k -> S] : k \in 0..n}

\* The handlers a caller may pass.  Go cannot compare func values, so the
\* code treats handlers as opaque: a handler that was never passed before is
\* the next unused number, and every handler already installed may be passed
\* again.
KnownHandlers ==
    ({nodes[i].Handler : i \in 1..Len(nodes)} \cup {fallbackHandler}) \cap Handlers
HandlerChoices ==
    {H(h) : h \in 1..(IF Cardinality(KnownHandlers) < NumHandlers
                      THEN Cardinality(KnownHandlers) + 1 ELSE NumHandlers)}
HandlerArgs == HandlerChoices \cup {NilHandler}
ErrArgs == Ids \cup {NilErr}

\* Use(handler, errs...), while at most cap nodes are allocated.
UseUpTo(handler, errs, cap) ==
    LET r == UseCall(Forest, handler, errs) IN
    /\ Len(r.nodes) <= cap
    /\ nodes' = r.nodes
    /\ errorTree' = r.tree
    /\ ret' = r.ret
    /\ events' = <<>>
    /\ panicked' = FALSE
    /\ UNCHANGED <<fallbackHandler, globalMiddlewares, chainArgs>>

Use(handler, errs) == UseUpTo(handler, errs, MaxNodes)

\* UseWithMiddleware(middleware, handler, errs...), under the same cap.
UseWithMiddlewareUpTo(middleware, handler, errs, cap) ==
    UseUpTo(LocalHandler(middleware, handler), errs, cap)

\* -------------------------------------------------- Fallback, UseGlobal

\* Fallback(fn)
Fallback(fn) ==
    /\ fallbackHandler' = fn
    /\ ret' = "none"
    /\ events' = <<>>
    /\ panicked' = FALSE
    /\ UNCHANGED <<nodes, errorTree, globalMiddlewares, chainArgs>>

\* Middleware lists up to renaming of the middlewares (func values are
\* opaque): the first middleware is 1, each later one is an earlier one or
\* the next unused number.
RECURSIVE MaxOf(_)
MaxOf(s) ==
    IF s = <<>> THEN 0
    ELSE LET m == MaxOf(Tail(s)) IN IF Head(s) > m THEN Head(s) ELSE m

MwLists ==
    {s \in SeqUpTo(Mws, MaxGlobal) :
        \A i \in 1..Len(s) : s[i] <= MaxOf(SubSeq(s, 1, i - 1)) + 1}

\* UseGlobal(middlewares...)
UseGlobal(middlewares) ==
    /\ globalMiddlewares' = MiddlewareChain(middlewares)
    /\ ret' = "none"
    /\ events' = <<>>
    /\ panicked' = FALSE
    /\ UNCHANGED <<nodes, errorTree, fallbackHandler, chainArgs>>

\* ----------------------------------------------------- ErrbinMiddleware

\* The gin.HandlerFunc returned by ErrbinMiddleware, run for a request whose
\* handlers recorded cErrors in c.Errors.  Yields the events and panicked.
Dispatch(cErrors) ==
    IF Len(cErrors) = 0 THEN [events |-> <<>>, panicked |-> FALSE]
    ELSE LET err == cErrors[Len(cErrors)]
             hf == findHandler(nodes, errorTree, err)
             h == IF ~hf[2] THEN fallbackHandler ELSE hf[1]
         IN  IF globalMiddlewares = NilMw
             THEN [events |-> <<>>, panicked |-> TRUE]
             ELSE Run(CallMw(globalMiddlewares, h), err)

ErrbinMiddleware(cErrors) ==
    /\ events' = Dispatch(cErrors).events
    /\ panicked' = Dispatch(cErrors).panicked
    /\ ret' = "none"
    /\ UNCHANGED <<nodes, errorTree, fallbackHandler, globalMiddlewares, chainArgs>>

\* ------------------------------------------------------------------ specs

NoChainArgs == [mws |-> <<>>, eh |-> NilHandler, err |-> NilErr, done |-> FALSE]

Init ==
    /\ nodes = <<>>
    /\ errorTree = <<>>
    /\ ret = "none"
    /\ fallbackHandler = DefaultFallback
    /\ globalMiddlewares = NilMw
    /\ events = <<>>
    /\ panicked = FALSE
    /\ chainArgs = NoChainArgs

\* Registration phase, one identity per Use call (a call with several
\* identities runs the same loop body once per identity).
UseAction ==
    \E handler \in HandlerArgs, newErr \in ErrArgs : Use(handler, <<newErr>>)

Next == UseAction

Spec == Init /\ [][Next]_vars

\* Registration, reconfiguration and request dispatch.
UseDispatchAction ==
    \E handler \in HandlerArgs, newErr \in ErrArgs :
        UseUpTo(handler, <<newErr>>, MaxDispatchNodes)
FallbackAction == \E fn \in HandlerArgs : Fallback(fn)
UseGlobalAction == \E middlewares \in MwLists : UseGlobal(middlewares)
ErrbinMiddlewareAction ==
    \E cErrors \in SeqUpTo(Ids, MaxRecorded) : ErrbinMiddleware(cErrors)

NextDispatch ==
    \/ UseDispatchAction
    \/ FallbackAction
    \/ UseGlobalAction
    \/ ErrbinMiddlewareAction

SpecDispatch == Init /\ [][NextDispatch]_vars

\* One call MiddlewareChain(middlewares...)(eh)(err, c) on drawn arguments.
InitChain ==
    /\ nodes = <<>>
    /\ errorTree = <<>>
    /\ ret = "none"
    /\ fallbackHandler = DefaultFallback
    /\ globalMiddlewares = NilMw
    /\ events = <<>>
    /\ panicked = FALSE
    /\ chainArgs \in [mws : SeqUpTo(Mws, MaxMws), eh : Handlers, err : Ids, done : {FALSE}]

CallChain ==
    /\ chainArgs.eh # NilHandler
    /\ ~chainArgs.done
    /\ LET r == Run(CallMw(MiddlewareChain(chainArgs.mws), chainArgs.eh), chainArgs.err)
       IN  /\ events' = r.events
           /\ panicked' = r.panicked
    /\ chainArgs' = [chainArgs EXCEPT !.done = TRUE]
    /\ UNCHANGED <<nodes, errorTree, ret, fallbackHandler, globalMiddlewares>>

NextChain == CallChain

SpecChain == InitChain /\ [][NextChain]_vars

\* Registration with and without a local middleware, reconfiguration and
\* request dispatch.
UseWithMiddlewareAction ==
    \E middleware \in Mws, handler \in HandlerArgs, newErr \in ErrArgs :
        UseWithMiddlewareUpTo(middleware, handler, <<newErr>>, MaxDispatchNodes)

NextLocal ==
    \/ UseDispatchAction
    \/ UseWithMiddlewareAction
    \/ FallbackAction
    \/ UseGlobalAction
    \/ ErrbinMiddlewareAction

SpecLocal == Init /\ [][NextLocal]_vars

\* One call Chain(handlers...)(err, c) on drawn arguments.
InitHandlers ==
    /\ nodes = <<>>
    /\ errorTree = <<>>
    /\ ret = "none"
    /\ fallbackHandler = DefaultFallback
    /\ globalMiddlewares = NilMw
    /\ events = <<>>
    /\ panicked = FALSE
    /\ chainArgs \in [hs : SeqUpTo(Handlers, MaxChain), err : Ids, done : {FALSE}]

CallHandlers ==
    /\ ~chainArgs.done
    /\ LET r == Run(Chain(chainArgs.hs), chainArgs.err)
       IN  /\ events' = r.events
           /\ panicked' = r.panicked
    /\ chainArgs' = [chainArgs EXCEPT !.done = TRUE]
    /\ UNCHANGED <<nodes, errorTree, ret, fallbackHandler, globalMiddlewares>>

NextHandlers == CallHandlers

SpecHandlers == InitHandlers /\ [][NextHandlers]_vars

\* Registration with any number of identities per Use call.  chainArgs
\* tells whether the last call failed after it had allocated a node.
ErrLists == SeqUpTo(ErrArgs, MaxErrs)

\* Use stores the handler without looking at it (nil apart), so while the
\* identity lists vary one handler is registered throughout.
MultiHandlerArgs == {H(1), NilHandler}

InitMulti ==
    /\ nodes = <<>>
    /\ errorTree = <<>>
    /\ ret = "none"
    /\ fallbackHandler = DefaultFallback
    /\ globalMiddlewares = NilMw
    /\ events = <<>>
    /\ panicked = FALSE
    /\ chainArgs = [partial |-> FALSE]

UseMultiAction ==
    \E handler \in MultiHandlerArgs, errs \in ErrLists :
        LET r == UseCall(Forest, handler, errs) IN
        /\ Len(r.nodes) <= MaxMultiNodes
        /\ nodes' = r.nodes
        /\ errorTree' = r.tree
        /\ ret' = r.ret
        /\ chainArgs' = [partial |-> r.ret # RetOk /\ Len(r.nodes) > Len(nodes)]
        /\ UNCHANGED <<fallbackHandler, globalMiddlewares, events, panicked>>

NextMulti == UseMultiAction

SpecMulti == InitMulti /\ [][NextMulti]_vars

\* ================================================================ claims

\* Helpers to state the claims: the tree as the Children sequences define it.
NodeIds == 1..Len(nodes)
Roots == Range(errorTree)
Registered == {nodes[n].Error : n \in NodeIds}
NodeOf(e) == CHOOSE n \in NodeIds : nodes[n].Error = e
ChildrenOf(n) == Range(nodes[n].Children)
\* X wraps Y, directly or transitively, and is not Y.
Wraps(x, y) == x # y /\ Is(x, y)

\* The nodes reachable from n through at least one Children step, looking
\* at most d levels down.
RECURSIVE DescendantsWithin(_, _)
DescendantsWithin(n, d) ==
    IF d = 0 THEN {}
    ELSE ChildrenOf(n) \cup UNION {DescendantsWithin(c, d - 1) : c \in ChildrenOf(n)}
Descendants(n) == DescendantsWithin(n, Len(nodes))

\* The first registered identity met when unwrapping e (excluding e), or NilErr.
RECURSIVE NearestRegistered(_)
NearestRegistered(e) ==
    IF Unwrap(e) = NilErr THEN NilErr
    ELSE IF Unwrap(e) \in Registered THEN Unwrap(e)
    ELSE NearestRegistered(Unwrap(e))

\* The first registered identity met when unwrapping e, e included, or NilErr.
MostSpecificRegistered(e) == IF e \in Registered THEN e ELSE NearestRegistered(e)

\* ---------------------------------------------------------------- C1

\* b <- s <- m is a wrap chain whose identities are exactly the registered
\* ones, each with a handler of its own.
ChainRegistered(b, s, m) ==
    /\ Wraps(s, b)
    /\ Wraps(m, s)
    /\ Registered = {b, s, m}
    /\ Len(nodes) = 3
    /\ \A x, y \in NodeIds : x # y => nodes[x].Handler # nodes[y].Handler

\* C1: when exactly the identities of a wrap chain b <- s <- m are
\* registered, with distinct handlers and in whatever order, findHandler
\* returns m's handler for every error that is m or wraps down to m, s's
\* handler for every error that wraps down to s but not to m, and reports
\* no match for every error whose wrap chain holds none of the three.
C1_MostSpecificResolution ==
    \A b, s, m \in Ids :
        ChainRegistered(b, s, m) =>
            \A e \in Ids :
                /\ Is(e, m) =>
                      findHandler(nodes, errorTree, e) = <<nodes[NodeOf(m)].Handler, TRUE>>
                /\ (Is(e, s) /\ ~Is(e, m)) =>
                      findHandler(nodes, errorTree, e) = <<nodes[NodeOf(s)].Handler, TRUE>>
                /\ (~Is(e, b) /\ ~Is(e, s) /\ ~Is(e, m)) =>
                      findHandler(nodes, errorTree, e)[2] = FALSE

\* The chain 1 <- 2 <- 3 is registered with 3 first and 1 last; 4 wraps down
\* to 3, Branch wraps down to 2 only, and both resolve.
C1_Witness ==
    /\ ChainRegistered(1, 2, 3)
    /\ nodes[1].Error = 3
    /\ nodes[3].Error = 1
    /\ findHandler(nodes, errorTree, 4) = <<nodes[NodeOf(3)].Handler, TRUE>>
    /\ findHandler(nodes, errorTree, Branch) = <<nodes[NodeOf(2)].Handler, TRUE>>

\* ---------------------------------------------------------------- C2

\* C2: any two nodes whose identities are related (x's identity wraps y's)
\* lie on one root-to-leaf path, y's node being an ancestor of x's node.
C2_HierarchyInvariant ==
    \A x, y \in NodeIds :
        Wraps(nodes[x].Error, nodes[y].Error) => x \in Descendants(y)

\* ---------------------------------------------------------------- C3

NoIdentityTwice(ns) ==
    \A x, y \in 1..Len(ns) : ns[x].Error = ns[y].Error => x = y

\* C3: no identity is held by two nodes, and a Use call with a non-nil
\* handler and one identity that is already registered (wherever its node
\* sits) returns the duplicate-registration error and leaves nodes and
\* roots as they were.
C3_Uniqueness ==
    /\ NoIdentityTwice(nodes)
    /\ \A handler \in Handlers, e \in Registered :
          LET r == UseCall(Forest, handler, <<e>>) IN
          /\ r.ret = RetDuplicate
          /\ r.nodes = nodes
          /\ r.tree = errorTree

\* A duplicate was just refused in a forest of three nodes one of which is
\* neither a root nor a leaf.
C3_Witness ==
    /\ ret = RetDuplicate
    /\ Len(nodes) = 3
    /\ \E n \in NodeIds : n \notin Roots /\ nodes[n].Children # <<>>

\* ---------------------------------------------------------------- C4

\* C4: when Use registers an identity b that wraps no registered identity,
\* the new node is a root, every former root whose identity wraps b has left
\* the root sequence and is a child of the new node, and every other former
\* root is still a root.
C4_DescendantPromotion ==
    \A handler \in Handlers, b \in Ids :
        (\A x \in Registered : ~Is(b, x)) =>
            LET r == UseCall(Forest, handler, <<b>>)
                new == Len(nodes) + 1
            IN  /\ r.ret = RetOk
                /\ Len(r.nodes) = new
                /\ r.nodes[new].Error = b
                /\ new \in Range(r.tree)
                /\ \A root \in Roots :
                      IF Is(nodes[root].Error, b)
                      THEN /\ root \notin Range(r.tree)
                           /\ root \in Range(r.nodes[new].Children)
                      ELSE root \in Range(r.tree)

\* Two roots were promoted under a later registered root while a third
\* identity would still be a root of its own.
C4_Witness ==
    \E n \in Roots :
        /\ Len(nodes[n].Children) = 2
        /\ \A c \in ChildrenOf(n) : c < n /\ c \notin Roots

\* ---------------------------------------------------------------- C5

\* C5: when Use registers an unregistered identity d that wraps some
\* registered identity, the new node becomes the last child of the node of
\* the nearest registered identity d wraps, its Parent is that node, and the
\* root sequence is unchanged.
C5_AncestorInsertion ==
    \A handler \in Handlers, d \in Ids :
        (d \notin Registered /\ \E x \in Registered : Is(d, x)) =>
            LET r == UseCall(Forest, handler, <<d>>)
                new == Len(nodes) + 1
                near == NodeOf(NearestRegistered(d))
            IN  /\ r.ret = RetOk
                /\ Len(r.nodes) = new
                /\ r.nodes[new].Error = d
                /\ r.nodes[new].Parent = near
                /\ r.nodes[near].Children = Append(nodes[near].Children, new)
                /\ r.tree = errorTree

\* A node was attached two levels down, below a node that is not a root.
C5_Witness ==
    \E n \in NodeIds :
        /\ nodes[n].Parent # Nil
        /\ nodes[nodes[n].Parent].Parent # Nil
        /\ n \in ChildrenOf(nodes[n].Parent)
        /\ ret = RetOk

\* ---------------------------------------------------------------- C6

\* C6: a node's Parent is set iff the node is not a root, and it then is
\* the one node whose Children holds the node.
C6_ParentLink ==
    \A n \in NodeIds :
        /\ nodes[n].Parent # Nil <=> n \notin Roots
        /\ nodes[n].Parent # Nil =>
              /\ n \in ChildrenOf(nodes[n].Parent)
              /\ \A p \in NodeIds : n \in ChildrenOf(p) => p = nodes[n].Parent

\* ---------------------------------------------------------------- C7

\* C7: Fallback(nil) leaves the installed fallback handler in place.
C7_FallbackNilNoOp ==
    [][Fallback(NilHandler) => fallbackHandler' = fallbackHandler]_vars

\* ---------------------------------------------------------------- C8

\* Some registered identity is matched by e.
Matched(e) == \E x \in Registered : Is(e, x)
\* The handler lookup should select for e: the handler of the most
\* specific registered identity, or the fallback handler.
Selected(e) ==
    IF Matched(e) THEN nodes[NodeOf(MostSpecificRegistered(e))].Handler
    ELSE fallbackHandler
CallsOf(evs) == SelectSeq(evs, LAMBDA x : x.ev = "call")

\* C8: while globalMiddlewares is in its initial state (UseGlobal never
\* called), a request that recorded an error completes without a panic and
\* makes exactly one call, of the resolved-or-fallback handler with that
\* error, and no middleware runs.
C8_DefaultGlobalIdentity ==
    [][\A cErrors \in SeqUpTo(Ids, MaxRecorded) :
          (/\ cErrors # <<>>
           /\ globalMiddlewares = NilMw
           /\ Selected(cErrors[Len(cErrors)]) # NilHandler
           /\ ErrbinMiddleware(cErrors)) =>
              /\ ~panicked'
              /\ events' = <<Event("call", Selected(cErrors[Len(cErrors)]).id,
                                   cErrors[Len(cErrors)])>>]_vars

\* ---------------------------------------------------------------- C9

\* C9: a request whose recorded error matches no registered identity makes
\* exactly one handler call, of the configured fallback handler, and does
\* not fail; a request whose recorded error matches a registered identity
\* does not call the fallback handler (when no node holds that handler too).
C9_FallbackDispatch ==
    [][\A cErrors \in SeqUpTo(Ids, MaxRecorded) :
          (cErrors # <<>> /\ ErrbinMiddleware(cErrors)) =>
              LET e == cErrors[Len(cErrors)] IN
              /\ ~Matched(e) =>
                    /\ ~panicked'
                    /\ fallbackHandler # NilHandler
                    /\ CallsOf(events') = <<Event("call", fallbackHandler.id, e)>>
              /\ (/\ Matched(e)
                  /\ fallbackHandler # NilHandler
                  /\ \A n \in NodeIds : nodes[n].Handler # fallbackHandler) =>
                    \A i \in 1..Len(events') :
                        ~(events'[i].ev = "call" /\ events'[i].id = fallbackHandler.id)]_vars

\* C9 holds of every request made while neither package variable is nil:
\* the failures of C9_FallbackDispatch are those of C7 and C8.
C9_OnlyWhenNil ==
    [][(globalMiddlewares # NilMw /\ fallbackHandler # NilHandler) =>
          \A cErrors \in SeqUpTo(Ids, MaxRecorded) :
              (cErrors # <<>> /\ ErrbinMiddleware(cErrors)) =>
                  LET e == cErrors[Len(cErrors)] IN
                  /\ ~Matched(e) =>
                        /\ ~panicked'
                        /\ CallsOf(events') = <<Event("call", fallbackHandler.id, e)>>
                  /\ (Matched(e) /\ \A n \in NodeIds : nodes[n].Handler # fallbackHandler) =>
                        \A i \in 1..Len(events') :
                            ~(events'[i].ev = "call"
                              /\ events'[i].id = fallbackHandler.id)]_vars

\* --------------------------------------------------------------- C10

PreEvents(mws, err) == [i \in 1..Len(mws) |-> Event("pre", mws[i], err)]
PostEvents(mws, err) == [i \in 1..Len(mws) |-> Event("post", mws[Len(mws) + 1 - i], err)]

\* C10: one call of MiddlewareChain(m1..mn)(h) runs pre(m1), ..., pre(mn),
\* then h exactly once, then post(mn), ..., post(m1); MiddlewareChain()(h)
\* is h itself.
C10_MiddlewareOrdering ==
    chainArgs.done =>
        /\ ~panicked
        /\ events = PreEvents(chainArgs.mws, chainArgs.err)
                    \o <<Event("call", chainArgs.eh.id, chainArgs.err)>>
                    \o PostEvents(chainArgs.mws, chainArgs.err)
        /\ chainArgs.mws = <<>> =>
              CallMw(MiddlewareChain(chainArgs.mws), chainArgs.eh) = chainArgs.eh

\* A chain of three different middlewares was called: seven events.
C10_Witness ==
    /\ chainArgs.done
    /\ Len(chainArgs.mws) = 3
    /\ Cardinality(Range(chainArgs.mws)) = 3
    /\ Len(events) = 7

\* --------------------------------------------------------------- C11

\* C11: one call of Chain(h1..hn) calls h1, ..., hn once each, in argument
\* order, each with the error the chain was called with, and nothing else.
C11_HandlerChaining ==
    chainArgs.done =>
        /\ ~panicked
        /\ events = [i \in 1..Len(chainArgs.hs) |->
                        Event("call", chainArgs.hs[i].id, chainArgs.err)]

\* A chain of three handlers, the first of them given twice, was called.
C11_Witness ==
    /\ chainArgs.done
    /\ Len(chainArgs.hs) = 3
    /\ chainArgs.hs[1] = chainArgs.hs[3]
    /\ chainArgs.hs[1] # chainArgs.hs[2]
    /\ Len(events) = 3

\* --------------------------------------------------------------- C12

\* The calls Use(handler, errs[i]), Use(handler, errs[i+1]), ... made one
\* after the other on the forest f, stopped at the first that fails.
RECURSIVE SequentialUse(_, _, _, _)
SequentialUse(f, handler, errs, i) ==
    IF i > Len(errs) THEN [nodes |-> f.nodes, tree |-> f.tree, ret |-> RetOk]
    ELSE LET r == UseCall(f, handler, <<errs[i]>>) IN
         IF r.ret # RetOk THEN r
         ELSE SequentialUse(r, handler, errs, i + 1)

\* The first position of errs holding nil, an identity already registered
\* or an identity given earlier in errs; Len(errs) + 1 if there is none.
FirstFailing(errs) ==
    LET fails(i) == \/ errs[i] = NilErr
                    \/ errs[i] \in Registered
                    \/ \E j \in 1..(i - 1) : errs[j] = errs[i]
        F == {i \in 1..Len(errs) : fails(i)}
    IN  IF F = {} THEN Len(errs) + 1
        ELSE CHOOSE i \in F : \A j \in F : i <= j

\* C12: Use(h, e1..en) with a non-nil handler gives the forest and the result
\* of Use(h,e1), ..., Use(h,en) stopped at the first failure; with ei the
\* first nil or duplicate identity it returns that error, the nodes it
\* created are those of e1..e(i-1) and the earlier nodes remain.
C12_MultiIdentityRegistration ==
    \A handler \in HandlerChoices, errs \in ErrLists :
        LET r == UseCall(Forest, handler, errs)
            i == FirstFailing(errs)
            n == Len(nodes)
        IN  /\ r = SequentialUse(Forest, handler, errs, 1)
            /\ r.ret = IF i > Len(errs) THEN RetOk
                       ELSE IF errs[i] = NilErr THEN RetNilErr ELSE RetDuplicate
            /\ Len(r.nodes) = n + i - 1
            /\ \A k \in 1..(i - 1) :
                   /\ r.nodes[n + k].Error = errs[k]
                   /\ r.nodes[n + k].Handler = handler
            /\ \A k \in 1..n :
                   /\ r.nodes[k].Error = nodes[k].Error
                   /\ r.nodes[k].Handler = nodes[k].Handler

\* A call registered an identity and then failed on a duplicate.
C12_Witness ==
    /\ chainArgs.partial
    /\ ret = RetDuplicate
    /\ Len(nodes) = MaxMultiNodes

\* --------------------------------------------------------------- C13

\* C13: Use with a nil handler returns an error and leaves the forest as it
\* was, whatever identities it is given; Use with a nil identity returns an
\* error and no node ever holds nil; and after either failure a Use call
\* with a handler and an unregistered identity succeeds and registers it.
C13_InvalidArguments ==
    /\ \A n \in NodeIds : nodes[n].Error # NilErr /\ nodes[n].Handler # NilHandler
    /\ \A errs \in ErrLists :
           UseCall(Forest, NilHandler, errs)
               = [nodes |-> nodes, tree |-> errorTree, ret |-> RetNilHandler]
    /\ \A errs \in ErrLists :
           NilErr \in Range(errs) =>
               LET r == UseCall(Forest, H(1), errs) IN
               /\ r.ret \in {RetNilErr, RetDuplicate}
               /\ \A n \in 1..Len(r.nodes) : r.nodes[n].Error # NilErr
    /\ ret \in {RetNilHandler, RetNilErr} =>
           \A handler \in HandlerChoices, e \in Ids \ Registered :
               LET r == UseCall(Forest, handler, <<e>>) IN
               /\ r.ret = RetOk
               /\ r.nodes[Len(r.nodes)].Error = e
               /\ r.nodes[Len(r.nodes)].Handler = handler

\* A call registered an identity and then failed on a nil identity.
C13_Witness ==
    /\ chainArgs.partial
    /\ ret = RetNilErr
    /\ nodes # <<>>

\* A call with a nil handler failed on a forest that holds nodes.
C13_WitnessNilHandler ==
    /\ ret = RetNilHandler
    /\ nodes # <<>>

\* --------------------------------------------------------------- C14

\* The handler behind h: the one given to UseWithMiddleware, or h itself.
HandlerOf(h) == IF h.kind = "local" THEN h.handler ELSE h
\* The local middleware of h, if it was registered through UseWithMiddleware.
LocalMws(h) == IF h.kind = "local" THEN <<h.mw>> ELSE <<>>

\* What C14 asks of the request that recorded cErrors.
GlobalThenLocal(cErrors) ==
    LET e == cErrors[Len(cErrors)]
        h == Selected(e)
        gs == globalMiddlewares.mws
    IN  /\ ~panicked'
        /\ HandlerOf(h) # NilHandler
        /\ events' = PreEvents(gs, e) \o PreEvents(LocalMws(h), e)
                       \o <<Event("call", HandlerOf(h).id, e)>>
                       \o PostEvents(LocalMws(h), e) \o PostEvents(gs, e)

\* C14: after UseGlobal(g1..gn), a request that recorded an error runs
\* g1, ..., gn in that order, then the local middleware of the selected
\* handler if it has one, then the handler exactly once, whether the handler
\* is a registered one or the fallback.
C14_GlobalOnDispatch ==
    [][\A cErrors \in SeqUpTo(Ids, MaxRecorded) :
          (/\ cErrors # <<>>
           /\ globalMiddlewares # NilMw
           /\ ErrbinMiddleware(cErrors)) => GlobalThenLocal(cErrors)]_vars

\* C14 holds of every request whose selected handler is not nil: its
\* failures are a nil fallback (C7) and a nil handler given to
\* UseWithMiddleware.
C14_OnlyWhenNil ==
    [][\A cErrors \in SeqUpTo(Ids, MaxRecorded) :
          (/\ cErrors # <<>>
           /\ globalMiddlewares # NilMw
           /\ HandlerOf(Selected(cErrors[Len(cErrors)])) # NilHandler
           /\ ErrbinMiddleware(cErrors)) => GlobalThenLocal(cErrors)]_vars

\* Two global middlewares ran around the local middleware of a handler.
C14_Reached ==
    /\ globalMiddlewares # NilMw
    /\ Len(events) = 7
    /\ ~panicked

\* --------------------------------------------------------------- C15

\* The roots whose identity wraps e, and the other roots, in root order.
RootsWrapping(e) == SelectSeq(errorTree, LAMBDA n : Is(nodes[n].Error, e))
RootsNotWrapping(e) == SelectSeq(errorTree, LAMBDA n : ~Is(nodes[n].Error, e))
Reverse(s) == [i \in 1..Len(s) |-> s[Len(s) + 1 - i]]
\* Registering e makes it the ancestor of existing roots.
Promotes(e) ==
    /\ \A x \in Registered : ~Is(e, x)
    /\ RootsWrapping(e) # <<>>

\* C15: when a newly registered identity becomes the ancestor of existing
\* roots, the Children of its node are those roots in root order, the other
\* roots keep their order and the new node is the last root.
C15_PromotionOrder ==
    \A handler \in HandlerChoices, e \in Ids :
        Promotes(e) =>
            LET r == UseCall(Forest, handler, <<e>>)
                new == Len(nodes) + 1
            IN  /\ r.ret = RetOk
                /\ r.nodes[new].Children = RootsWrapping(e)
                /\ r.tree = Append(RootsNotWrapping(e), new)

\* What the code does instead: the Children are the detached roots in the
\* reverse of root order; the rest of C15 holds.
C15_ReversedOrder ==
    \A handler \in HandlerChoices, e \in Ids :
        Promotes(e) =>
            LET r == UseCall(Forest, handler, <<e>>)
                new == Len(nodes) + 1
            IN  /\ r.ret = RetOk
                /\ r.nodes[new].Children = Reverse(RootsWrapping(e))
                /\ r.tree = Append(RootsNotWrapping(e), new)

\* A registration made two roots the children of a new root.
C15_Reached ==
    \E n \in NodeIds : n \in Roots /\ Len(nodes[n].Children) = 2 /\ n = Len(nodes)

\* --------------------------------------------------------------- C16

\* The two lookups agree on every error value in the present forest.
TraversalsAgree ==
    \A err \in Ids :
        findHandlerBreadthFirst(nodes, errorTree, err) = findHandler(nodes, errorTree, err)

\* C16: in every forest built by Use calls and for every error value, the
\* breadth-first lookup and the depth-first lookup return the same handler
\* or both find none.
C16_TraversalEquivalence == TraversalsAgree

\* The lookups agree in every forest where related identities lie on one
\* path: the failures of C16 are forests in which C2 fails.
C16_OnlyWhenSiblingsRelated == C2_HierarchyInvariant => TraversalsAgree

\* A forest of three nodes in which related identities lie on one path and
\* some node has two children.
C16_Reached ==
    /\ C2_HierarchyInvariant
    /\ Len(nodes) = 3
    /\ \E n \in NodeIds : Len(nodes[n].Children) = 2

\* --------------------------------------------------------------- C17

\* The nodes met walking the forest below the list of nodes, parents before
\* children, at most d levels down; a node met twice is listed twice.
RECURSIVE Walk(_, _)
Walk(list, d) ==
    IF list = <<>> \/ d = 0 THEN <<>>
    ELSE <<Head(list)>> \o Walk(nodes[Head(list)].Children, d - 1) \o Walk(Tail(list), d)

\* The number of Children paths from the roots to n.
PathsTo(n) == Len(SelectSeq(Walk(errorTree, Len(nodes) + 1), LAMBDA x : x = n))

\* C17: every node ever created by Use is in the forest, on exactly one
\* Children path from the roots, no identity has two nodes, resolving a
\* registered identity yields the handler it was registered with, and a
\* further Use call changes neither the identity nor the handler of a node.
C17_RegistrationsKept ==
    /\ NoIdentityTwice(nodes)
    /\ \A n \in NodeIds :
           /\ PathsTo(n) = 1
           /\ findHandler(nodes, errorTree, nodes[n].Error) = <<nodes[n].Handler, TRUE>>
    /\ \A handler \in HandlerChoices, e \in Ids :
           LET r == UseCall(Forest, handler, <<e>>) IN
           /\ \A n \in NodeIds :
                  /\ r.nodes[n].Error = nodes[n].Error
                  /\ r.nodes[n].Handler = nodes[n].Handler
           /\ r.ret = RetOk =>
                  /\ Len(r.nodes) = Len(nodes) + 1
                  /\ r.nodes[Len(r.nodes)].Error = e
                  /\ r.nodes[Len(r.nodes)].Handler = handler

\* Three identities are registered, each with a handler of its own, and the
\* last registration detached two roots.
C17_Witness ==
    /\ Len(nodes) = 3
    /\ errorTree = <<3>>
    /\ Len(nodes[3].Children) = 2
    /\ \A x, y \in NodeIds : nodes[x].Handler = nodes[y].Handler => x = y

====
